---- MODULE Spec2Model ----
(***************************************************************************)
(* The useVibration hook: a capability probe evaluated in the hook body,   *)
(* the isVibrating state cell, the vibrate and stop callbacks, and the     *)
(* setTimeout callbacks that clear isVibrating.  Two copies of the hook    *)
(* exist in the repository; they differ only in the probe expression and   *)
(* in the text handed to console.error.                                    *)
(***************************************************************************)
EXTENDS Integers, Sequences, FiniteSets, TLC

\* ------------------------------------------------------------------ bounds
MaxDur == 2        \* largest single duration (ms) passed by a caller
MaxLen == 2        \* longest pattern array passed by a caller
MaxTimers == 2     \* most setTimeout callbacks outstanding at once

\* --------------------------------------------------------------- constants
DefaultDuration == 200   \* vibrate's default parameter

\* ---------------------------------------------------------------- patterns
\* A VibrationPattern is number | number[]; the argument may also be omitted.
Undefined == [tag |-> "undefined", n |-> 0, seq |-> <<>>]
Num(n) == [tag |-> "number", n |-> n, seq |-> <<>>]
Arr(s) == [tag |-> "array", n |-> 0, seq |-> s]

Durations == 0..MaxDur

\* A phase of a pattern array is empty or lasts one millisecond.
Elements == {0, 1}

SeqsUpTo(k) == UNION {[1..m -> Elements] : m \in 0..k}

Args == {Num(d) : d \in Durations} \cup {Arr(s) : s \in SeqsUpTo(MaxLen)}

\* pattern.reduce((sum, duration) => sum + duration, 0)
RECURSIVE Reduce(_)
Reduce(s) == IF s = <<>> THEN 0 ELSE Head(s) + Reduce(Tail(s))

\* A slip: the parameter has no default.
DefaultParamOmitted(arg) == arg

\* (pattern: VibrationPattern = 200)
DefaultParam(arg) == IF arg.tag = "undefined" THEN Num(DefaultDuration) ELSE arg

\* A slip: the single-duration branch leaves out setTimeout's delay.
ResetDelaysNoDelay(pattern) ==
    IF pattern.tag = "array" THEN <<Reduce(pattern.seq)>>
    ELSE IF pattern.n > 0 THEN <<0>>
    ELSE <<>>

\* A slip: only the vibrate phases (even indices) of an array are summed.
RECURSIVE ReduceEven(_)
ReduceEven(s) ==
    IF s = <<>> THEN 0
    ELSE Head(s) + (IF Len(s) >= 2 THEN ReduceEven(Tail(Tail(s))) ELSE 0)

ResetDelaysActiveOnly(pattern) ==
    IF pattern.tag = "array" THEN <<ReduceEven(pattern.seq)>>
    ELSE IF pattern.n > 0 THEN <<pattern.n>>
    ELSE <<>>

\* A slip: the else is missing, so an array schedules in both branches.
ResetDelaysBothBranches(pattern) ==
    IF pattern.tag = "array"
    THEN <<Reduce(pattern.seq), Reduce(pattern.seq)>>
    ELSE IF pattern.n > 0 THEN <<pattern.n>>
    ELSE <<>>

\* A slip: vibrate never schedules the reset.
ResetDelaysNever(pattern) == <<>>

\* A slip: the single-duration test is >= 0, so vibrate(0) schedules too.
ResetDelaysZeroToo(pattern) ==
    IF pattern.tag = "array" THEN <<Reduce(pattern.seq)>>
    ELSE IF pattern.n >= 0 THEN <<pattern.n>>
    ELSE <<>>

\* A slip: the array branch schedules only when the sum is positive, as the
\* single-duration branch does.
ResetDelaysPositiveOnly(pattern) ==
    IF pattern.tag = "array"
    THEN (IF Reduce(pattern.seq) > 0 THEN <<Reduce(pattern.seq)>> ELSE <<>>)
    ELSE IF pattern.n > 0 THEN <<pattern.n>>
    ELSE <<>>

\* The delays handed to setTimeout by one run of vibrate's try block, in
\* order: the sum for an array, the number itself when positive, else none.
ResetDelays(pattern) ==
    IF pattern.tag = "array" THEN <<Reduce(pattern.seq)>>
    ELSE IF pattern.n > 0 THEN <<pattern.n>>
    ELSE <<>>

\* ----------------------------------------------------------- pattern tables
\* The table of vibration-patterns.ts, which index.ts re-exports.
VibrationPatterns ==
    [tap |-> Num(100),
     standard |-> Num(200),
     heavy |-> Num(500),
     double |-> Arr(<<100, 30, 100>>),
     triple |-> Arr(<<100, 30, 100, 30, 100>>),
     success |-> Arr(<<100, 50, 200>>),
     error |-> Arr(<<300, 100, 500>>),
     notification |-> Arr(<<200, 100, 100>>),
     sos |-> Arr(<<100, 100, 100, 100, 100, 100, 300, 100, 300, 100, 300,
                   100, 100, 100, 100, 100, 100>>),
     heartbeat |-> Arr(<<100, 100, 100, 400>>)]

\* The table index.ts declares itself (use-vibration.tsx holds the same one).
IndexVibrationPatterns ==
    [LIGHT_TAP |-> Num(100),
     STANDARD |-> Num(200),
     HEAVY |-> Num(500),
     DOUBLE |-> Arr(<<100, 30, 100>>),
     TRIPLE |-> Arr(<<100, 30, 100, 30, 100>>),
     SUCCESS |-> Arr(<<100, 50, 200>>),
     ERROR |-> Arr(<<300, 100, 500>>),
     NOTIFICATION |-> Arr(<<200, 100, 100>>),
     SOS |-> Arr(<<100, 100, 100, 100, 100, 100, 300, 100, 300, 100, 300,
                   100, 100, 100, 100, 100, 100>>),
     HEARTBEAT |-> Arr(<<100, 100, 100, 400>>)]

\* table.name in JavaScript: undefined for a name the object does not have.
Lookup(table, name) ==
    IF name \in DOMAIN table THEN table[name] ELSE Undefined

\* The names the tests read from the table, and those the README's and the
\* doc comments' examples read.
TestReads == {"SUCCESS"}

DocReads == {"tap", "success", "error", "double", "SUCCESS", "ERROR", "DOUBLE"}

\* -------------------------------------------------------------------- host
\* What the global scope holds: no navigator, a navigator without a vibrate
\* member, one whose vibrate member is undefined, one whose vibrate is a
\* function.
Hosts == {"absent", "noMember", "undefinedMember", "function"}

\* The two probe expressions of the hook body.
ProbeKinds == {"typeofFunction", "inOperator"}

Probe(kind, host) ==
    IF kind = "typeofFunction"
    THEN host # "absent" /\ host = "function"
    ELSE host # "absent" /\ host \in {"undefinedMember", "function"}

\* Outcome of the expression navigator.vibrate(x): the primitive's own
\* outcome r when it is a function, a TypeError/ReferenceError otherwise.
HostResults == {"true", "false", "throw"}

Outcomes(host) == IF host = "function" THEN HostResults ELSE {"throw"}

Invoke(host, r) == IF host = "function" THEN r ELSE "throw"

\* A slip: the primitive is handed an array's total instead of the array.
ReceivedTotal(host, x) ==
    IF host = "function"
    THEN <<IF x.tag = "array" THEN Num(Reduce(x.seq)) ELSE x>>
    ELSE <<>>

\* Arguments the primitive itself received.
Received(host, x) == IF host = "function" THEN <<x>> ELSE <<>>

\* ------------------------------------------------------------------- state
VARIABLES
    probeKind,     \* which copy of the hook is mounted (its probe expression)
    nav,           \* what the global scope holds now
    isSupported,   \* the hook body's const, as of the latest render
    isVibrating,   \* the useState cell
    timers,        \* outstanding setTimeout callbacks: ms left, oldest first
    probed,        \* history: vibrate was a function at the latest render
    everSupported, \* history: some render's probe has reported support
    sinceCall,     \* history: ms elapsed since the latest vibrate/stop call
    lastCall,      \* history: what the latest vibrate/stop call did
    firedSince,    \* history: a setTimeout callback ran since that call
    prevCall,      \* history: the call before the latest (where it is kept)
    triggering     \* the component has not made its last vibrate call yet

vars == <<probeKind, nav, isSupported, isVibrating, timers, probed,
          everSupported, sinceCall, lastCall, firedSince, prevCall,
          triggering>>

NoCall == [op |-> "none", arg |-> Undefined, supported |-> FALSE,
           outcome |-> "skipped", before |-> FALSE, pendingBefore |-> 0,
           received |-> <<>>, logged |-> 0, escaped |-> FALSE]

\* The call before the latest one is recorded only in runs that start with
\* the record switched on; elsewhere prevCall stays Untracked.
Untracked == [op |-> "untracked", outcome |-> "skipped", supported |-> FALSE,
              pendingBefore |-> 0]

NoPrev == [op |-> "none", outcome |-> "skipped", supported |-> FALSE,
           pendingBefore |-> 0]

Follow(prev, call) ==
    IF prev = Untracked THEN Untracked
    ELSE [op |-> call.op, outcome |-> call.outcome,
          supported |-> call.supported,
          pendingBefore |-> call.pendingBefore]

\* ---------------------------------------------------------------- handlers
\* A slip: the isSupported guard is missing.
VibrateCallNoGuard(sup, host, r, arg, cur) ==
    LET pattern == DefaultParam(arg)
        didVibrate == Invoke(host, r)
    IN  IF didVibrate = "throw"
        THEN [outcome |-> "throw", received |-> Received(host, pattern),
              isVibrating |-> FALSE, delays |-> <<>>, logged |-> 1,
              escaped |-> FALSE]
        ELSE [outcome |-> didVibrate, received |-> Received(host, pattern),
              isVibrating |-> (didVibrate = "true"),
              delays |-> ResetDelays(pattern), logged |-> 0,
              escaped |-> FALSE]

\* A slip: the catch block reports but does not clear the cell.
VibrateCallCatchKeeps(sup, host, r, arg, cur) ==
    IF ~sup
    THEN [outcome |-> "skipped", received |-> <<>>, isVibrating |-> cur,
          delays |-> <<>>, logged |-> 0, escaped |-> FALSE]
    ELSE LET pattern == DefaultParam(arg)
             didVibrate == Invoke(host, r)
         IN  IF didVibrate = "throw"
             THEN [outcome |-> "throw", received |-> Received(host, pattern),
                   isVibrating |-> cur, delays |-> <<>>, logged |-> 1,
                   escaped |-> FALSE]
             ELSE [outcome |-> didVibrate,
                   received |-> Received(host, pattern),
                   isVibrating |-> (didVibrate = "true"),
                   delays |-> ResetDelays(pattern), logged |-> 0,
                   escaped |-> FALSE]

\* A slip: the cell is set to true instead of to the primitive's result.
VibrateCallAlwaysTrue(sup, host, r, arg, cur) ==
    IF ~sup
    THEN [outcome |-> "skipped", received |-> <<>>, isVibrating |-> cur,
          delays |-> <<>>, logged |-> 0, escaped |-> FALSE]
    ELSE LET pattern == DefaultParam(arg)
             didVibrate == Invoke(host, r)
         IN  IF didVibrate = "throw"
             THEN [outcome |-> "throw", received |-> Received(host, pattern),
                   isVibrating |-> FALSE, delays |-> <<>>, logged |-> 1,
                   escaped |-> FALSE]
             ELSE [outcome |-> didVibrate,
                   received |-> Received(host, pattern),
                   isVibrating |-> TRUE,
                   delays |-> ResetDelays(pattern), logged |-> 0,
                   escaped |-> FALSE]

\* A slip: the reset is scheduled only when the primitive took the request.
VibrateCallSchedulesIfTaken(sup, host, r, arg, cur) ==
    IF ~sup
    THEN [outcome |-> "skipped", received |-> <<>>, isVibrating |-> cur,
          delays |-> <<>>, logged |-> 0, escaped |-> FALSE]
    ELSE LET pattern == DefaultParam(arg)
             didVibrate == Invoke(host, r)
         IN  IF didVibrate = "throw"
             THEN [outcome |-> "throw", received |-> Received(host, pattern),
                   isVibrating |-> FALSE, delays |-> <<>>, logged |-> 1,
                   escaped |-> FALSE]
             ELSE [outcome |-> didVibrate,
                   received |-> Received(host, pattern),
                   isVibrating |-> (didVibrate = "true"),
                   delays |-> (IF didVibrate = "true"
                               THEN ResetDelays(pattern) ELSE <<>>),
                   logged |-> 0, escaped |-> FALSE]

\* The vibrate callback run with the captured isSupported `sup`, the global
\* scope `host`, the primitive's outcome `r`, the argument `arg` and the
\* current isVibrating `cur`: what it did and what it left behind.
VibrateCall(sup, host, r, arg, cur) ==
    IF ~sup
    THEN [outcome |-> "skipped", received |-> <<>>, isVibrating |-> cur,
          delays |-> <<>>, logged |-> 0, escaped |-> FALSE]
    ELSE LET pattern == DefaultParam(arg)
             didVibrate == Invoke(host, r)
         IN  IF didVibrate = "throw"
             THEN \* catch (error): console.error, setIsVibrating(false)
                  [outcome |-> "throw", received |-> Received(host, pattern),
                   isVibrating |-> FALSE, delays |-> <<>>, logged |-> 1,
                   escaped |-> FALSE]
             ELSE [outcome |-> didVibrate,
                   received |-> Received(host, pattern),
                   isVibrating |-> (didVibrate = "true"),
                   delays |-> ResetDelays(pattern), logged |-> 0,
                   escaped |-> FALSE]

\* A slip: stop cancels the hardware but leaves the cell alone.
StopCallNoClear(sup, host, r, cur) ==
    IF ~sup
    THEN [outcome |-> "skipped", received |-> <<>>, isVibrating |-> cur,
          delays |-> <<>>, logged |-> 0, escaped |-> FALSE]
    ELSE LET result == Invoke(host, r)
         IN  [outcome |-> result, received |-> Received(host, Num(0)),
              isVibrating |-> cur, delays |-> <<>>,
              logged |-> (IF result = "throw" THEN 1 ELSE 0),
              escaped |-> FALSE]

\* A slip: stop's catch block clears the cell as vibrate's does.
StopCallCatchClears(sup, host, r, cur) ==
    IF ~sup
    THEN [outcome |-> "skipped", received |-> <<>>, isVibrating |-> cur,
          delays |-> <<>>, logged |-> 0, escaped |-> FALSE]
    ELSE LET result == Invoke(host, r)
         IN  [outcome |-> result, received |-> Received(host, Num(0)),
              isVibrating |-> FALSE, delays |-> <<>>,
              logged |-> (IF result = "throw" THEN 1 ELSE 0),
              escaped |-> FALSE]

\* A slip: stop flips the cell instead of clearing it.
StopCallToggles(sup, host, r, cur) ==
    IF ~sup
    THEN [outcome |-> "skipped", received |-> <<>>, isVibrating |-> cur,
          delays |-> <<>>, logged |-> 0, escaped |-> FALSE]
    ELSE LET result == Invoke(host, r)
         IN  IF result = "throw"
             THEN [outcome |-> "throw", received |-> Received(host, Num(0)),
                   isVibrating |-> cur, delays |-> <<>>, logged |-> 1,
                   escaped |-> FALSE]
             ELSE [outcome |-> result, received |-> Received(host, Num(0)),
                   isVibrating |-> ~cur, delays |-> <<>>, logged |-> 0,
                   escaped |-> FALSE]

\* The stop callback, likewise.
StopCall(sup, host, r, cur) ==
    IF ~sup
    THEN [outcome |-> "skipped", received |-> <<>>, isVibrating |-> cur,
          delays |-> <<>>, logged |-> 0, escaped |-> FALSE]
    ELSE LET result == Invoke(host, r)
         IN  IF result = "throw"
             THEN \* catch (error): console.error only
                  [outcome |-> "throw", received |-> Received(host, Num(0)),
                   isVibrating |-> cur, delays |-> <<>>, logged |-> 1,
                   escaped |-> FALSE]
             ELSE [outcome |-> result, received |-> Received(host, Num(0)),
                   isVibrating |-> FALSE, delays |-> <<>>, logged |-> 0,
                   escaped |-> FALSE]

\* A slip: the callback flips the cell instead of clearing it.
TimerCallbackToggles(cur) == ~cur

\* The body of a setTimeout callback: setIsVibrating(false).
TimerCallback(cur) == FALSE

\* ------------------------------------------------------------------ render
\* The hook body runs on every render and evaluates the probe again.
RenderNow ==
    /\ isSupported' = Probe(probeKind, nav)
    /\ probed' = (nav = "function")
    /\ everSupported' = (everSupported \/ Probe(probeKind, nav))

\* A slip: the probe's result is kept from the first render (memoised), so a
\* changed cell does not evaluate it again.
SetIsVibratingProbeKept(v) ==
    /\ isVibrating' = v
    /\ UNCHANGED <<isSupported, probed, everSupported>>

\* setIsVibrating(v): the cell takes v, and a changed cell renders the hook.
SetIsVibrating(v) ==
    /\ isVibrating' = v
    /\ IF v # isVibrating
       THEN RenderNow
       ELSE UNCHANGED <<isSupported, probed, everSupported>>

Init ==
    /\ probeKind \in ProbeKinds
    /\ nav \in Hosts
    /\ isSupported = Probe(probeKind, nav)
    /\ probed = (nav = "function")
    /\ everSupported = Probe(probeKind, nav)
    /\ isVibrating = FALSE
    /\ timers = <<>>
    /\ sinceCall = 0
    /\ lastCall = NoCall
    /\ firedSince = FALSE
    /\ prevCall = Untracked
    /\ triggering = TRUE

\* ----------------------------------------------------------------- actions
\* What a call did; a call that returned at the isSupported guard did
\* nothing with its argument.
Record(op, arg, res) ==
    [op |-> op, arg |-> (IF isSupported THEN arg ELSE Undefined),
     supported |-> isSupported,
     outcome |-> res.outcome, before |-> isVibrating,
     pendingBefore |-> Len(timers), received |-> res.received,
     logged |-> res.logged, escaped |-> res.escaped]

\* A change of design: vibrate clears the callbacks scheduled before it.
VibrateClearsPending(arg, r) ==
    LET res == VibrateCall(isSupported, nav, r, arg, isVibrating)
    IN  /\ Len(timers) + Len(res.delays) <= MaxTimers
        /\ timers' = res.delays
        /\ SetIsVibrating(res.isVibrating)
        /\ lastCall' = Record("vibrate", arg, res)
        /\ sinceCall' = 0
        /\ firedSince' = FALSE
        /\ prevCall' = Follow(prevCall, lastCall)
        /\ UNCHANGED <<probeKind, nav, triggering>>

\* controls.vibrate(arg)
Vibrate(arg, r) ==
    LET res == VibrateCall(isSupported, nav, r, arg, isVibrating)
    IN  /\ Len(timers) + Len(res.delays) <= MaxTimers
        /\ timers' = timers \o res.delays
        /\ SetIsVibrating(res.isVibrating)
        /\ lastCall' = Record("vibrate", arg, res)
        /\ sinceCall' = 0
        /\ firedSince' = FALSE
        /\ prevCall' = Follow(prevCall, lastCall)
        /\ UNCHANGED <<probeKind, nav, triggering>>

\* A change of design: stop clears the callbacks scheduled before it.
StopClearsPending(r) ==
    LET res == StopCall(isSupported, nav, r, isVibrating)
    IN  /\ timers' = <<>>
        /\ SetIsVibrating(res.isVibrating)
        /\ lastCall' = Record("stop", Undefined, res)
        /\ sinceCall' = 0
        /\ firedSince' = FALSE
        /\ prevCall' = Follow(prevCall, lastCall)
        /\ UNCHANGED <<probeKind, nav, triggering>>

\* controls.stop()
Stop(r) ==
    LET res == StopCall(isSupported, nav, r, isVibrating)
    IN  /\ timers' = timers \o res.delays
        /\ SetIsVibrating(res.isVibrating)
        /\ lastCall' = Record("stop", Undefined, res)
        /\ sinceCall' = 0
        /\ firedSince' = FALSE
        /\ prevCall' = Follow(prevCall, lastCall)
        /\ UNCHANGED <<probeKind, nav, triggering>>

Due == {i \in 1..Len(timers) : timers[i] = 0}

Min(S) == CHOOSE x \in S : \A y \in S : x <= y

Remove(s, i) == SubSeq(s, 1, i - 1) \o SubSeq(s, i + 1, Len(s))

\* The event loop runs the oldest due setTimeout callback.
Fire ==
    /\ Due # {}
    /\ timers' = Remove(timers, Min(Due))
    /\ SetIsVibrating(TimerCallback(isVibrating))
    /\ firedSince' = TRUE
    /\ UNCHANGED <<probeKind, nav, sinceCall, lastCall, prevCall,
                   triggering>>

\* One millisecond passes; a due callback runs before time moves on.
Tick ==
    /\ timers # <<>>
    /\ Due = {}
    /\ timers' = [i \in 1..Len(timers) |-> timers[i] - 1]
    /\ sinceCall' = sinceCall + 1
    /\ UNCHANGED <<probeKind, nav, isSupported, isVibrating, probed,
                   everSupported, lastCall, firedSince, prevCall,
                   triggering>>

\* The component renders for a reason of its own (a parent render, say).
Rerender ==
    /\ RenderNow
    /\ UNCHANGED <<probeKind, nav, isVibrating, timers, sinceCall, lastCall,
                   firedSince, prevCall, triggering>>

\* The global scope changes under the mounted hook.
HostChange(h) ==
    /\ h # nav
    /\ nav' = h
    /\ UNCHANGED <<probeKind, isSupported, isVibrating, timers, probed,
                   everSupported, sinceCall, lastCall, firedSince,
                   prevCall, triggering>>

Next ==
    \/ \E arg \in Args, r \in Outcomes(nav) : Vibrate(arg, r)
    \/ \E r \in Outcomes(nav) : Stop(r)
    \/ Fire
    \/ Tick
    \/ Rerender
    \/ \E h \in Hosts : HostChange(h)

Spec == Init /\ [][Next]_vars

\* ------------------------------------------------------- call sequences
\* A hook mounted where navigator.vibrate is a function and stays one, with
\* the call before the latest one on record.
InitCalls ==
    /\ probeKind \in ProbeKinds
    /\ nav = "function"
    /\ isSupported = Probe(probeKind, nav)
    /\ probed = (nav = "function")
    /\ everSupported = Probe(probeKind, nav)
    /\ isVibrating = FALSE
    /\ timers = <<>>
    /\ sinceCall = 0
    /\ lastCall = NoCall
    /\ firedSince = FALSE
    /\ prevCall = NoPrev
    /\ triggering = TRUE

NextCalls ==
    \/ \E arg \in Args, r \in Outcomes(nav) : Vibrate(arg, r)
    \/ \E r \in Outcomes(nav) : Stop(r)
    \/ Fire
    \/ Tick

SpecCalls == InitCalls /\ [][NextCalls]_vars

\* ------------------------------------------------ calls as the tests make them
\* vibrate() with no argument, vibrate(200), and vibrate(VibrationPatterns.X)
\* for the names the tests read, against the exported table.
TestArgs ==
    {Undefined, Num(DefaultDuration)}
        \cup {Lookup(VibrationPatterns, name) : name \in TestReads \cup {"success"}}

\* Time passes until the next callback is due (jest.advanceTimersByTime).
Advance ==
    /\ timers # <<>>
    /\ Due = {}
    /\ LET dt == Min({timers[i] : i \in 1..Len(timers)})
       IN  /\ timers' = [i \in 1..Len(timers) |-> timers[i] - dt]
           /\ sinceCall' = sinceCall + dt
    /\ UNCHANGED <<probeKind, nav, isSupported, isVibrating, probed,
                   everSupported, lastCall, firedSince, prevCall,
                   triggering>>

NextTests ==
    \/ \E arg \in TestArgs, r \in Outcomes(nav) : Vibrate(arg, r)
    \/ \E r \in Outcomes(nav) : Stop(r)
    \/ Fire
    \/ Advance

SpecTests == InitCalls /\ [][NextTests]_vars

\* ------------------------------------------------------ the event loop runs
\* The component makes its last vibrate call: from here on it only lets the
\* timers run, calls stop, or renders.
LastTrigger ==
    /\ triggering
    /\ triggering' = FALSE
    /\ UNCHANGED <<probeKind, nav, isSupported, isVibrating, timers, probed,
                   everSupported, sinceCall, lastCall, firedSince, prevCall>>

\* A hook mounted where navigator.vibrate is a function and stays one.
InitLive ==
    /\ probeKind \in ProbeKinds
    /\ nav = "function"
    /\ isSupported = Probe(probeKind, nav)
    /\ probed = (nav = "function")
    /\ everSupported = Probe(probeKind, nav)
    /\ isVibrating = FALSE
    /\ timers = <<>>
    /\ sinceCall = 0
    /\ lastCall = NoCall
    /\ firedSince = FALSE
    /\ prevCall = Untracked
    /\ triggering = TRUE

NextLive ==
    \/ \E arg \in Args, r \in Outcomes(nav) : triggering /\ Vibrate(arg, r)
    \/ \E r \in Outcomes(nav) : Stop(r)
    \/ Fire
    \/ Tick
    \/ LastTrigger

\* The event loop runs a callback that is due, and time passes while
\* callbacks are outstanding and none is due.
SpecLive == InitLive /\ [][NextLive]_vars /\ WF_vars(Fire) /\ WF_vars(Tick)

\* ============================================================== properties
\* The latest call was vibrate on a supported hook and the primitive took it.
Accepted ==
    /\ lastCall.op = "vibrate"
    /\ lastCall.supported
    /\ lastCall.outcome = "true"

\* The sum of a sequence's elements, counted by position.
RECURSIVE SumUpTo(_, _)
SumUpTo(s, k) == IF k = 0 THEN 0 ELSE s[k] + SumUpTo(s, k - 1)

\* While fewer than `total` ms have passed since the latest call its reset is
\* the one outstanding callback and isVibrating is true; the callback runs
\* when exactly `total` ms have passed, and isVibrating is false from then on.
AutoReset(total) ==
    /\ sinceCall <= total
    /\ sinceCall < total => isVibrating /\ ~firedSince
                            /\ timers = <<total - sinceCall>>
    /\ firedSince => sinceCall = total
    /\ (sinceCall = total /\ Due = {}) => ~isVibrating /\ timers = <<>>

\* C1: after an accepted vibrate(d) with a single duration d > 0, made with no
\* reset outstanding and followed by no other call, isVibrating is true at
\* every time before d ms have passed and false once d ms have passed.
C1_SingleAutoReset ==
    (/\ Accepted
     /\ lastCall.arg.tag = "number"
     /\ lastCall.arg.n > 0
     /\ lastCall.pendingBefore = 0) => AutoReset(lastCall.arg.n)

C1_Witness ==
    /\ Accepted
    /\ lastCall.arg = Num(2)
    /\ lastCall.pendingBefore = 0
    /\ sinceCall = 2
    /\ firedSince
    /\ ~isVibrating

\* C2: after an accepted vibrate(array), made with no reset outstanding and
\* followed by no other call, the reset runs when the sum of all elements has
\* passed: isVibrating is true before that and false once it has passed.
C2_SequenceAutoReset ==
    (/\ Accepted
     /\ lastCall.arg.tag = "array"
     /\ lastCall.pendingBefore = 0)
        => AutoReset(SumUpTo(lastCall.arg.seq, Len(lastCall.arg.seq)))

C2_Witness ==
    /\ Accepted
    /\ lastCall.arg = Arr(<<1, 1>>)
    /\ lastCall.pendingBefore = 0
    /\ sinceCall = 2
    /\ firedSince
    /\ ~isVibrating

\* C3: a stop() on a supported hook whose primitive does not throw hands the
\* primitive the value 0 and leaves isVibrating false at once, whatever
\* resets are still outstanding.
C3_StopForcesIdle ==
    (/\ lastCall.op = "stop"
     /\ lastCall.supported
     /\ lastCall.outcome # "throw")
        => /\ lastCall.received = <<Num(0)>>
           /\ ~isVibrating

C3_Witness ==
    /\ lastCall.op = "stop"
    /\ lastCall.supported
    /\ lastCall.outcome = "true"
    /\ lastCall.before
    /\ sinceCall = 0
    /\ ~firedSince
    /\ timers # <<>>
    /\ ~isVibrating

\* C4: while every probe so far has reported no support, isVibrating is
\* false, the primitive has not been handed anything, nothing has been
\* reported and no reset is outstanding, whatever vibrate and stop calls
\* were made.
C4_UnsupportedIsInert ==
    ~everSupported =>
        /\ ~isSupported
        /\ ~isVibrating
        /\ timers = <<>>
        /\ lastCall.received = <<>>
        /\ lastCall.logged = 0

C4_Witness ==
    /\ ~everSupported
    /\ lastCall.op = "vibrate"
    /\ lastCall.outcome = "skipped"
    /\ nav = "undefinedMember"

\* C5: a vibrate call in which the primitive throws reports once to
\* console.error, lets no exception out and leaves isVibrating false,
\* whether isVibrating was true or false before.
C5_VibrateContainsErrors ==
    (lastCall.op = "vibrate" /\ lastCall.outcome = "throw")
        => /\ lastCall.logged = 1
           /\ ~lastCall.escaped
           /\ ~isVibrating

C5_Witness ==
    /\ lastCall.op = "vibrate"
    /\ lastCall.outcome = "throw"
    /\ lastCall.received # <<>>
    /\ lastCall.before
    /\ ~isVibrating

\* C6: a stop call in which the primitive throws reports once to
\* console.error, lets no exception out, and leaves isVibrating as it was
\* before the call (until a reset callback runs).
C6_StopContainsErrors ==
    (lastCall.op = "stop" /\ lastCall.outcome = "throw")
        => /\ lastCall.logged = 1
           /\ ~lastCall.escaped
           /\ (~firedSince => isVibrating = lastCall.before)

C6_Witness ==
    /\ lastCall.op = "stop"
    /\ lastCall.outcome = "throw"
    /\ lastCall.received = <<Num(0)>>
    /\ lastCall.before
    /\ ~firedSince
    /\ isVibrating

\* C7: isSupported is true only if, at the render that computed it, the
\* global scope held a navigator whose vibrate member is a function.
C7_ProbeOnlyCallable == isSupported => probed

\* C8 as stated: at most one reset callback is outstanding at any time.
C8_AtMostOneReset == Len(timers) <= 1

\* C8 as amended: every step adds at most one outstanding reset callback, and
\* no vibrate or stop call removes or reorders the ones already outstanding.
C8_OneResetPerCall ==
    [][/\ Len(timers') <= Len(timers) + 1
       /\ (sinceCall' = 0 /\ ~firedSince')
            => /\ Len(timers') >= Len(timers)
               /\ SubSeq(timers', 1, Len(timers)) = timers]_vars

C8_Witness ==
    /\ Len(timers) = 2
    /\ lastCall.op = "stop"
    /\ lastCall.outcome = "true"
    /\ lastCall.pendingBefore = 2

\* C9 as stated: isSupported never changes after construction.
C9_SupportFixed == [][isSupported' = isSupported]_vars

\* C9 as amended: isSupported changes only at a render, to what the probe
\* finds in the global scope at that render; a change of the global scope
\* alone leaves it as it was; and every change of isVibrating renders, so it
\* leaves isSupported equal to the probe's finding.
C9_SupportFollowsRenders ==
    [][/\ isSupported' # isSupported
            => nav' = nav /\ isSupported' = Probe(probeKind, nav)
       /\ nav' # nav => isSupported' = isSupported
       /\ isVibrating' # isVibrating
            => isSupported' = Probe(probeKind, nav)]_vars

C9_Witness ==
    /\ everSupported
    /\ ~isSupported
    /\ lastCall.op = "vibrate"
    /\ lastCall.supported
    /\ timers # <<>>

\* C10: from the return of a vibrate call on a supported hook in which the
\* primitive did not throw, and until a reset callback runs, isVibrating is
\* the boolean the primitive returned, and nothing was reported.
C10_ActiveIsReturnValue ==
    (/\ lastCall.op = "vibrate"
     /\ lastCall.supported
     /\ lastCall.outcome # "throw"
     /\ ~firedSince)
        => /\ isVibrating = (lastCall.outcome = "true")
           /\ lastCall.logged = 0

C10_Witness ==
    /\ lastCall.op = "vibrate"
    /\ lastCall.supported
    /\ lastCall.outcome = "false"
    /\ lastCall.before
    /\ ~firedSince
    /\ ~isVibrating
    /\ lastCall.logged = 0

\* The number of callbacks one vibrate call schedules, read off its argument.
Scheduled(arg) == IF arg.tag = "array" \/ arg.n > 0 THEN 1 ELSE 0

\* The delay of that callback.
Total(arg) ==
    IF arg.tag = "array" THEN SumUpTo(arg.seq, Len(arg.seq)) ELSE arg.n

\* C11: vibrate(0) on a supported hook schedules no reset callback: until a
\* callback left by an earlier call runs, isVibrating is what the primitive
\* returned and the outstanding callbacks are those outstanding before; with
\* none outstanding before, nothing ever changes isVibrating but a later call.
C11_ZeroDurationNoReset ==
    (/\ lastCall.op = "vibrate"
     /\ lastCall.supported
     /\ lastCall.arg = Num(0)
     /\ lastCall.outcome # "throw")
        => /\ ~firedSince => /\ isVibrating = (lastCall.outcome = "true")
                             /\ Len(timers) = lastCall.pendingBefore
           /\ Len(timers) <= lastCall.pendingBefore
           /\ lastCall.pendingBefore = 0
                => /\ ~firedSince
                   /\ sinceCall = 0
                   /\ timers = <<>>

C11_Witness ==
    /\ Accepted
    /\ lastCall.arg = Num(0)
    /\ lastCall.pendingBefore = 0
    /\ ~lastCall.before
    /\ isVibrating
    /\ timers = <<>>
    /\ nav # "function"

\* C13: a vibrate call on a supported hook hands the primitive its argument
\* as it is, once: the same number, or the same elements in the same order.
C13_PatternPassThrough ==
    (/\ lastCall.op = "vibrate"
     /\ lastCall.supported
     /\ lastCall.arg.tag # "undefined")
        => /\ lastCall.outcome # "throw" => lastCall.received = <<lastCall.arg>>
           /\ lastCall.received # <<>> => lastCall.received = <<lastCall.arg>>

C13_Witness ==
    /\ lastCall.op = "vibrate"
    /\ lastCall.supported
    /\ lastCall.arg = Arr(<<1, 0>>)
    /\ lastCall.received = <<Arr(<<1, 0>>)>>
    /\ Len(lastCall.received[1].seq) = 2
    /\ lastCall.received[1].seq[1] = 1

\* C14: a stop() that follows a stop(), neither throwing, changes nothing:
\* isVibrating stays false and the outstanding callbacks stay as they were.
C14_StopIdempotent ==
    [][(/\ lastCall'.op = "stop"
        /\ lastCall'.supported
        /\ lastCall'.outcome # "throw"
        /\ prevCall'.op = "stop"
        /\ prevCall'.supported
        /\ prevCall'.outcome # "throw"
        /\ sinceCall' = 0
        /\ ~firedSince')
          => /\ timers' = timers
             /\ isVibrating' = isVibrating
             /\ ~isVibrating']_vars

C14_Witness ==
    /\ lastCall.op = "stop"
    /\ lastCall.outcome = "true"
    /\ prevCall.op = "stop"
    /\ prevCall.outcome = "true"
    /\ prevCall.pendingBefore = 1
    /\ lastCall.pendingBefore = 1
    /\ Len(timers) = 1
    /\ ~firedSince
    /\ ~isVibrating

\* C16: a vibrate call leaves the callbacks scheduled before it outstanding,
\* each with the time it had left, and whenever a callback runs isVibrating
\* is false afterwards, also while a later call's callback is outstanding.
C16_SecondTriggerKeepsFirstReset ==
    [][/\ (lastCall'.op = "vibrate" /\ sinceCall' = 0 /\ ~firedSince')
            => /\ Len(timers') >= Len(timers)
               /\ SubSeq(timers', 1, Len(timers)) = timers
       /\ Len(timers') < Len(timers) => ~isVibrating']_vars

C16_Witness ==
    /\ prevCall.op = "vibrate"
    /\ prevCall.pendingBefore = 0
    /\ Accepted
    /\ lastCall.pendingBefore = 1
    /\ lastCall.arg = Num(2)
    /\ sinceCall = 1
    /\ firedSince
    /\ timers = <<1>>
    /\ ~isVibrating

\* C17: a stop call leaves the outstanding callbacks as they are, and a
\* callback that runs after a vibrate that followed the stop leaves
\* isVibrating false.
C17_StopKeepsPendingReset ==
    [][/\ (lastCall'.op = "stop" /\ sinceCall' = 0 /\ ~firedSince')
            => timers' = timers
       /\ (lastCall'.op = "vibrate" /\ prevCall'.op = "stop" /\ firedSince')
            => ~isVibrating']_vars

C17_Witness ==
    /\ prevCall.op = "stop"
    /\ prevCall.outcome = "true"
    /\ prevCall.pendingBefore = 1
    /\ Accepted
    /\ lastCall.pendingBefore = 1
    /\ lastCall.arg = Num(2)
    /\ sinceCall < 2
    /\ firedSince
    /\ Len(timers) = 1
    /\ timers[1] > 0
    /\ ~isVibrating

\* C18: isVibrating goes from false to true only in a vibrate call on a
\* supported hook in which the primitive returned true.
C18_OnlyAcceptedTriggerActivates ==
    [][(~isVibrating /\ isVibrating')
          => /\ lastCall'.op = "vibrate"
             /\ lastCall'.supported
             /\ lastCall'.outcome = "true"
             /\ ~lastCall'.before
             /\ sinceCall' = 0
             /\ ~firedSince']_vars

C18_Witness ==
    /\ Accepted
    /\ ~lastCall.before
    /\ sinceCall = 0
    /\ ~firedSince
    /\ isVibrating
    /\ lastCall.pendingBefore = 1
    /\ timers[1] = 0

\* C19: a vibrate call that the primitive turned down schedules its callback
\* all the same, and that callback, when it runs after a later accepted
\* vibrate, leaves isVibrating false.
C19_RejectedTriggerSchedules ==
    /\ (/\ lastCall.op = "vibrate"
        /\ lastCall.supported
        /\ lastCall.outcome = "false"
        /\ ~firedSince)
          => /\ ~isVibrating
             /\ Len(timers) = lastCall.pendingBefore + Scheduled(lastCall.arg)
             /\ Scheduled(lastCall.arg) = 1
                  => timers[Len(timers)] = Total(lastCall.arg) - sinceCall
    /\ (/\ Accepted
        /\ prevCall.op = "vibrate"
        /\ prevCall.outcome = "false"
        /\ firedSince) => ~isVibrating

C19_Witness ==
    /\ prevCall.op = "vibrate"
    /\ prevCall.outcome = "false"
    /\ prevCall.pendingBefore = 0
    /\ Accepted
    /\ lastCall.pendingBefore = 1
    /\ lastCall.arg = Num(2)
    /\ firedSince
    /\ Len(timers) = 1
    /\ timers[1] > 0
    /\ ~isVibrating

\* C20: an accepted vibrate(array) whose elements sum to 0 (the empty array
\* too) schedules a callback with delay 0: isVibrating is true when the call
\* returns, no time passes before a callback runs, and isVibrating is false
\* once one has run.
C20_ZeroSumSequenceResets ==
    (/\ Accepted
     /\ lastCall.arg.tag = "array"
     /\ Total(lastCall.arg) = 0)
        => /\ sinceCall = 0 \/ firedSince
           /\ ~firedSince => /\ isVibrating
                             /\ Len(timers) = lastCall.pendingBefore + 1
                             /\ timers[Len(timers)] = 0
           /\ firedSince => ~isVibrating
           /\ (firedSince /\ lastCall.pendingBefore = 0) => timers = <<>>

C20_Witness ==
    /\ Accepted
    /\ lastCall.arg = Arr(<<>>)
    /\ lastCall.pendingBefore = 0
    /\ sinceCall = 0
    /\ firedSince
    /\ timers = <<>>
    /\ ~isVibrating

\* C12: vibrate() with no argument hands the primitive the number 200, once,
\* and does what vibrate(200) does: the same effect on isVibrating, and a
\* reset callback that runs 200 ms after the call.
C12_DefaultDuration ==
    /\ \A r \in HostResults :
          VibrateCall(isSupported, nav, r, Undefined, isVibrating)
            = VibrateCall(isSupported, nav, r, Num(200), isVibrating)
    /\ (/\ lastCall.op = "vibrate"
        /\ lastCall.supported
        /\ lastCall.arg = Undefined)
          => /\ lastCall.received = <<Num(200)>>
             /\ (lastCall.outcome # "throw" /\ ~firedSince)
                  => isVibrating = (lastCall.outcome = "true")
             /\ (Accepted /\ lastCall.pendingBefore = 0) => AutoReset(200)

C12_Witness ==
    /\ Accepted
    /\ lastCall.arg = Undefined
    /\ lastCall.received = <<Num(200)>>
    /\ lastCall.pendingBefore = 0
    /\ sinceCall = 200
    /\ firedSince
    /\ timers = <<>>
    /\ ~isVibrating

\* C15: the exported table has success = [100,50,200], error = [300,100,500]
\* and double = [100,30,100] under these lower-case names, and it agrees
\* entry for entry with the table the tests and the docs read: every name
\* they read is an entry of it, and vibrate(VibrationPatterns.name) does the
\* same with it as with the table index.ts declares.
C15_PatternTableFidelity ==
    /\ Lookup(VibrationPatterns, "success") = Arr(<<100, 50, 200>>)
    /\ Lookup(VibrationPatterns, "error") = Arr(<<300, 100, 500>>)
    /\ Lookup(VibrationPatterns, "double") = Arr(<<100, 30, 100>>)
    /\ \A name \in TestReads \cup DocReads :
          /\ Lookup(VibrationPatterns, name) # Undefined
          /\ \A r \in Outcomes(nav) :
                VibrateCall(isSupported, nav, r,
                            Lookup(VibrationPatterns, name), isVibrating)
                  = VibrateCall(isSupported, nav, r,
                                Lookup(IndexVibrationPatterns, name),
                                isVibrating)

\* C21: where the event loop runs due callbacks and time passes, every
\* accepted vibrate call on a supported hook with a sequence or a positive
\* duration is followed by a state where isVibrating is false; and once the
\* component has made such a call as its last vibrate call, isVibrating
\* becomes false and stays false, all outstanding callbacks having run.
C21_EventuallyIdle ==
    /\ (Accepted /\ Scheduled(lastCall.arg) = 1) ~> ~isVibrating
    /\ (Accepted /\ Scheduled(lastCall.arg) = 1 /\ ~triggering)
          ~> [](timers = <<>> /\ ~isVibrating)

C21_Witness ==
    /\ Accepted
    /\ Scheduled(lastCall.arg) = 1
    /\ Total(lastCall.arg) > 0
    /\ lastCall.pendingBefore > 0
    /\ ~triggering
    /\ firedSince
    /\ timers = <<>>
    /\ ~isVibrating

====
